---- MODULE Spec2Model ----
(***************************************************************************)
(* State-machine model of the sanctions-radar scripts.                     *)
(*                                                                         *)
(*   Collector   (src/unnamed/part_000, lines 1-120): checks RAPIDAPI_KEY, *)
(*               runs one request per QuerySpec, tags and accumulates the  *)
(*               returned records, sorts, deduplicates and writes          *)
(*               data/events.json.                                         *)
(*               The second script of that file (lines 122-237) is the     *)
(*               same process with two tags per record (BasicSpec).        *)
(*   Synthesizer (src/scripts/generate-brief.js): reads data/events.json,  *)
(*               runs three text-generation passes and writes index.html   *)
(*               and data/latest-brief.json.                               *)
(*                                                                         *)
(* A JSON object is modelled as the sequence of its <<name, value>> pairs  *)
(* in insertion order, which is the order JSON.parse creates them in and   *)
(* the order JSON.stringify emits them in.  Values are strings.            *)
(* File-system writes are taken to succeed (spec.md section 7, case d).    *)
(***************************************************************************)
EXTENDS Integers, Sequences, FiniteSets, TLC

VARIABLES
    API_KEY,      \* process.env.RAPIDAPI_KEY (Undefined when not set)
    pc,           \* control point of the Collector process
    qi,           \* index of the QuerySpec the for-loop of fetchData is at
    allResults,   \* the accumulation array of fetchData
    lastResponse, \* what the latest request resolved to
    failures,     \* number of requests that failed so far
    requests,     \* history: the QuerySpec index of each issued request
    eventsFile,   \* content of data/events.json
    writes,       \* number of writeFile calls on data/events.json
    exitCode,     \* "none" while running, "0" normal end, "1" process.exit(1)
    GITHUB_TOKEN, \* process.env.GITHUB_TOKEN (Undefined when not set)
    spc,          \* control point of the Synthesizer process
    events,       \* `events` of generateBrief
    entityData,   \* result of pass 1
    briefHtml,    \* result of pass 2
    socialContent,\* result of pass 3
    digest1,      \* `eventText` of the prompt of pass 1 (<<>> when none was built)
    digest2,      \* `eventSummary` of the prompt of pass 2 (<<>> when none was built)
    passOutcome,  \* history: what the text-generation call of each pass resolved to
    modelCalls,   \* history: the passes that sent a request to the service
    indexHtml,    \* index.html: <<>> until written, then <<content>>
    latestBrief   \* data/latest-brief.json: <<>> until written, then <<content>>

collectorVars == <<API_KEY, pc, qi, allResults, lastResponse, failures, requests, writes, exitCode>>
synthVars == <<GITHUB_TOKEN, spc, events, entityData, briefHtml, socialContent,
               digest1, digest2, passOutcome, modelCalls, indexHtml, latestBrief>>
vars == <<collectorVars, eventsFile, synthVars>>

----------------------------------------------------------------------------
(* Bounds *)

\* The model runs the first NumQueries QuerySpecs of the list.
NumQueries == 2
\* At most MaxSignals records are accumulated in one run.
MaxSignals == 3

----------------------------------------------------------------------------
(* JavaScript values *)

\* The value of a property that is not there.
Undefined == "<undefined>"

\* Mutant of Truthy: only a missing value is falsy, the empty string is not.
Truthy_OnlyUndefined(v) == v # Undefined

\* ToBoolean of a (string or undefined) value, as used by `!API_KEY` and `||`.
Truthy(v) == v # Undefined /\ v # ""

HasField(o, k) == \E i \in 1..Len(o) : o[i][1] = k

\* o[k]
Get(o, k) ==
    IF HasField(o, k)
    THEN o[CHOOSE i \in 1..Len(o) : o[i][1] = k][2]
    ELSE Undefined

\* o[k] = v : an existing property keeps its position, a new one goes last.
SetField(o, k, v) ==
    IF HasField(o, k)
    THEN [i \in 1..Len(o) |-> IF o[i][1] = k THEN <<k, v>> ELSE o[i]]
    ELSE Append(o, <<k, v>>)

\* JSON.stringify(item): the members in insertion order, so two objects with
\* the same members in a different order give different texts.
JSONstringify(item) == item

----------------------------------------------------------------------------
(* Collector: configuration and inputs *)

queries == <<
    [entities |-> "cryptocurrency exchanges", topic |-> "sanctions",              category |-> "sanctions",           severity |-> "critical"],
    [entities |-> "cryptocurrency services",  topic |-> "regulatory enforcement", category |-> "regulatory",          severity |-> "high"],
    [entities |-> "DeFi protocols",           topic |-> "sanctions evasion",      category |-> "sanctions-evasion",   severity |-> "critical"],
    [entities |-> "cryptocurrency mixers",    topic |-> "money laundering",       category |-> "money-laundering",    severity |-> "critical"],
    [entities |-> "cryptocurrency exchanges", topic |-> "cyberattack",            category |-> "cyberattack",         severity |-> "critical"],
    [entities |-> "DeFi protocols",           topic |-> "exploit",                category |-> "exploit",             severity |-> "critical"],
    [entities |-> "cryptocurrency projects",  topic |-> "rug pull",               category |-> "rug-pull",            severity |-> "high"],
    [entities |-> "cryptocurrency exchanges", topic |-> "wash trading",           category |-> "wash-trading",        severity |-> "high"],
    [entities |-> "cryptocurrency markets",   topic |-> "market manipulation",    category |-> "market-manipulation", severity |-> "high"],
    [entities |-> "cryptocurrency",           topic |-> "fraud",                  category |-> "fraud",               severity |-> "high"],
    [entities |-> "cryptocurrency",           topic |-> "phishing attack",        category |-> "phishing",            severity |-> "medium"] >>

\* Records the signal source may return.  The source chooses the field names:
\* one record has a field of its own that is named `_topic`.
RawSignals == {
    << <<"url", "https://x/1">>, <<"timestamp", "2026-01-01">> >>,
    << <<"url", "https://x/1">>, <<"timestamp", "2026-01-02">> >>,
    << <<"url", "https://x/2">>, <<"timestamp", "not a date">>, <<"_topic", "hack">> >>,
    << <<"timestamp", "2026-01-01">>, <<"title", "a">> >>,
    << <<"title", "a">>, <<"timestamp", "2026-01-01">> >>,
    << <<"url", "">>, <<"title", "a">> >> }

\* An element of a response array: a JSON object, or JSON null.
Obj(fields) == [isObject |-> TRUE, fields |-> fields]
NullElement == [isObject |-> FALSE, fields |-> <<>>]

SeqsUpTo(S, n) == UNION {[1..k -> S] : k \in 0..n}

\* What one request can resolve to.  "array" carries the parsed elements.
FailedResponses ==
    {[kind |-> k, items |-> <<>>] :
        k \in {"http_error", "network_error", "not_json", "not_array"}}
UntaggableResponses ==
    {[kind |-> "array", items |-> <<NullElement>>],
     [kind |-> "array",
      items |-> <<Obj(<< <<"url", "https://x/1">>, <<"timestamp", "2026-01-01">> >>), NullElement>>]}
ArrayResponses(room) ==
    {[kind |-> "array", items |-> [i \in 1..Len(s) |-> Obj(s[i])]] :
        s \in SeqsUpTo(RawSignals, room)}
Responses(room) == FailedResponses \cup UntaggableResponses \cup ArrayResponses(room)

\* Before the first request.
NoResponse == [kind |-> "none", items |-> <<>>]

\* A request that did not deliver a taggable array of records.
Failed(resp) ==
    \/ resp.kind \in {"http_error", "network_error", "not_json", "not_array"}
    \/ \E i \in 1..Len(resp.items) : ~resp.items[i].isObject

\* The content of a file that holds the JSON text of an array of objects.
JsonArrayFile(value) == [kind |-> "json_array", value |-> value]

\* An events.json left by an earlier run.
PriorEventSet ==
    JsonArrayFile(
        << << <<"url", "https://x/0">>, <<"timestamp", "2025-12-25">>,
              <<"_category", "fraud">>, <<"_severity", "high">>,
              <<"_entities", "cryptocurrency">>, <<"_topic", "fraud">> >> >>)

----------------------------------------------------------------------------
(* Collector: fetchData *)

\* The forEach of fetchData on one element.
Tag(r, query) ==
    SetField(SetField(SetField(SetField(r,
        "_category", query.category),
        "_severity", query.severity),
        "_entities", query.entities),
        "_topic", query.topic)

\* Mutant of HandleResponse: each element is pushed as soon as it is tagged,
\* so the elements before an untaggable one stay accumulated.
HandleResponse_PushWhileTagging(query, resp) ==
    IF resp.kind # "array" THEN <<>>
    ELSE LET n == IF \A i \in 1..Len(resp.items) : resp.items[i].isObject
                  THEN Len(resp.items)
                  ELSE (CHOOSE i \in 1..Len(resp.items) :
                            /\ ~resp.items[i].isObject
                            /\ \A j \in 1..(i - 1) : resp.items[j].isObject) - 1
         IN  [i \in 1..n |-> Tag(resp.items[i].fields, query)]

\* One iteration of the for-loop of fetchData: the records it pushes.
\* Every failure leaves the iteration without a push: `continue` on a
\* non-ok status; the catch on a rejected fetch, on a body that is not JSON
\* and on the TypeError of tagging a non-object (the module is strict code).
HandleResponse(query, resp) ==
    CASE resp.kind = "http_error"    -> <<>>
      [] resp.kind = "network_error" -> <<>>
      [] resp.kind = "not_json"      -> <<>>
      [] resp.kind = "not_array"     -> <<>>
      [] resp.kind = "array" ->
            IF \A i \in 1..Len(resp.items) : resp.items[i].isObject
            THEN [i \in 1..Len(resp.items) |-> Tag(resp.items[i].fields, query)]
            ELSE <<>>

----------------------------------------------------------------------------
(* Collector: saveData *)

\* Date.parse of the timestamps the model uses.
ValidDates == [d \in {"2025-12-25", "2026-01-01", "2026-01-02"} |->
                 CASE d = "2025-12-25" -> 1
                   [] d = "2026-01-01" -> 8
                   [] d = "2026-01-02" -> 9]

\* new Date(v): a time value, or NaN for a missing or unparseable timestamp.
NewDate(v) ==
    IF v \in DOMAIN ValidDates
    THEN [nan |-> FALSE, t |-> ValidDates[v]]
    ELSE [nan |-> TRUE, t |-> 0]

\* (a, b) => new Date(b.timestamp) - new Date(a.timestamp).  The difference
\* is NaN when either date is invalid, and Array.prototype.sort takes a NaN
\* from the comparator as +0.
comparefn(a, b) ==
    LET da == NewDate(Get(a, "timestamp"))
        db == NewDate(Get(b, "timestamp"))
    IN  IF da.nan \/ db.nan THEN 0 ELSE db.t - da.t

\* ECMA-262 "consistent comparison function" for the elements of s; the
\* conditions a numeric difference can break once NaN counts as 0.
ConsistentComparator(s) ==
    \A i, j, k \in 1..Len(s) :
        /\ (comparefn(s[i], s[j]) = 0 /\ comparefn(s[j], s[k]) = 0)
              => comparefn(s[i], s[k]) = 0
        /\ (comparefn(s[i], s[j]) < 0 /\ comparefn(s[j], s[k]) = 0)
              => comparefn(s[i], s[k]) < 0
        /\ (comparefn(s[i], s[j]) = 0 /\ comparefn(s[j], s[k]) < 0)
              => comparefn(s[i], s[k]) < 0

\* x put into the sorted sequence s behind every element it does not precede.
RECURSIVE InsertSorted(_, _)
InsertSorted(s, x) ==
    IF s = <<>> THEN <<x>>
    ELSE IF comparefn(s[Len(s)], x) <= 0
         THEN Append(s, x)
         ELSE Append(InsertSorted(SubSeq(s, 1, Len(s) - 1), x), s[Len(s)])

\* The stable sort of s under comparefn.
RECURSIVE StableSort(_)
StableSort(s) ==
    IF s = <<>> THEN <<>>
    ELSE InsertSorted(StableSort(SubSeq(s, 1, Len(s) - 1)), s[Len(s)])

\* data.sort(comparefn): the stable sort when comparefn is consistent on the
\* elements; otherwise the order is implementation-defined.
SortOutcomes(s) ==
    IF ConsistentComparator(s)
    THEN {StableSort(s)}
    ELSE {[i \in 1..Len(s) |-> s[p[i]]] : p \in Permutations(1..Len(s))}

\* item.url || JSON.stringify(item).  A url and a JSON text are never equal
\* here (a JSON text of an object starts with a brace).
Key(item) ==
    IF Truthy(Get(item, "url"))
    THEN <<Get(item, "url"), <<>>>>
    ELSE <<"", JSONstringify(item)>>

\* sorted.filter(...) with the `seen` set: the first item of each key.
RECURSIVE FilterUnique(_, _)
FilterUnique(sorted, seen) ==
    IF sorted = <<>> THEN <<>>
    ELSE IF Key(Head(sorted)) \in seen
         THEN FilterUnique(Tail(sorted), seen)
         ELSE <<Head(sorted)>> \o FilterUnique(Tail(sorted), seen \cup {Key(Head(sorted))})

\* Mutant of unique: `seen` is never filled, so nothing is filtered out.
unique_SeenNeverFilled(sorted) == sorted

\* Mutant of unique: only items with a url are kept.
unique_UrlOnly(sorted) ==
    FilterUnique(SelectSeq(sorted, LAMBDA item : Truthy(Get(item, "url"))), {})

unique(sorted) == FilterUnique(sorted, {})

----------------------------------------------------------------------------
(* Synthesizer: inputs *)

\* At most MaxEvents events are in the events.json the Synthesizer reads.
MaxEvents == 2

\* Entries an EventSet may hold.
EventSamples == {
    << <<"url", "https://x/1">>, <<"timestamp", "2026-01-02">>, <<"title", "OFAC designates mixer">>,
       <<"source", "Reuters">>, <<"_category", "sanctions">>, <<"_severity", "critical">> >>,
    << <<"timestamp", "2026-01-01">>, <<"text", "Bridge drained">>,
       <<"_category", "exploit">>, <<"_severity", "critical">> >>,
    << <<"title", "Untagged report">>, <<"source", "Blog">> >> }

\* What data/events.json can be when the Synthesizer starts: no file, a text
\* that is not JSON, JSON that is no array (null, an object), an array that
\* holds null, an array of objects.
EventFiles ==
    {[kind |-> k, value |-> <<>>] :
        k \in {"absent", "invalid_json", "json_null", "json_object", "json_array_of_null"}}
    \cup {JsonArrayFile(ev) : ev \in SeqsUpTo(EventSamples, MaxEvents)}

\* Texts the text-generation service may answer with.
TextProse == "I cannot help with that."
TextNull == "null"
TextNumber == "5"
TextEmptyObject == "{}"
TextEntitiesString == "{\"entities\":\"abc\"}"
TextEntityData ==
    "{\"entities\":[{\"name\":\"Tornado Cash\",\"type\":\"mixer\",\"risk\":\"critical\",\"mentions\":2}],\"threats\":[],\"trend\":\"escalating\",\"top_risk\":\"Mixer sanctions\"}"
\* A code fence is written ~~~ here: a string cannot hold a backquote.
TextFencedEntityData == "~~~json\n" \o TextEntityData \o "\n~~~"
TextTweets == "[\"tweet one\",\"tweet two\"]"
TextNumberArray == "[5]"
TextHtml == "<h3>Executive Summary</h3>"
TextFenceOnly == "~~~"

ModelTexts == {TextProse, TextNull, TextNumber, TextEmptyObject, TextEntitiesString,
               TextEntityData, TextFencedEntityData, TextTweets, TextNumberArray,
               TextHtml, TextFenceOnly}

\* `null` as the result of callGitHubModel and of generateMainBrief.
Null == "<null>"

\* What a call of callGitHubModel can run into.
NoToken == [kind |-> "no_token", text |-> Null]
NotCalled == [kind |-> "not_called", text |-> Null]
CallFailures ==
    {[kind |-> k, text |-> Null] : k \in {"http_error", "network_error", "no_content"}}
CallOutcomes ==
    IF ~Truthy(GITHUB_TOKEN)
    THEN {NoToken}
    ELSE CallFailures \cup {[kind |-> "content", text |-> t] : t \in ModelTexts}

----------------------------------------------------------------------------
(* Synthesizer: JSON values of the model's answers *)

\* A parsed JSON value, as far as generateBrief looks into it: its type, for
\* an object its `entities`, `trend` and `top_risk`, for an array its items.
NoEntities == [shape |-> "undefined", list |-> <<>>]
EntityList(l) == [shape |-> "list", list |-> l]
EntitiesString == [shape |-> "string", list |-> <<>>]
JsonNull == [type |-> "null", entities |-> NoEntities, trend |-> Undefined,
             top_risk |-> Undefined, items |-> <<>>, strings |-> FALSE]
JsonNumber == [JsonNull EXCEPT !.type = "number"]
JsonObject(entities, trend, top_risk) ==
    [type |-> "object", entities |-> entities, trend |-> trend,
     top_risk |-> top_risk, items |-> <<>>, strings |-> FALSE]
JsonArray(items, strings) ==
    [type |-> "array", entities |-> NoEntities, trend |-> Undefined,
     top_risk |-> Undefined, items |-> items, strings |-> strings]

\* result.replace(/```json?\n?/g, "").replace(/```\n?/g, "").trim()
CleanJson(text) ==
    CASE text = TextFencedEntityData -> TextEntityData
      [] text = TextFenceOnly -> ""
      [] OTHER -> text

\* result.replace(/```html?\n?/g, "").replace(/```\n?/g, "").trim()
CleanHtml(text) ==
    CASE text = TextFencedEntityData -> "json\n" \o TextEntityData
      [] text = TextFenceOnly -> ""
      [] OTHER -> text

\* JSON.parse(cleaned): ok is FALSE for the SyntaxError.
JSONparse(cleaned) ==
    CASE cleaned = TextNull -> [ok |-> TRUE, value |-> JsonNull]
      [] cleaned = TextNumber -> [ok |-> TRUE, value |-> JsonNumber]
      [] cleaned = TextEmptyObject ->
            [ok |-> TRUE, value |-> JsonObject(NoEntities, Undefined, Undefined)]
      [] cleaned = TextEntitiesString ->
            [ok |-> TRUE, value |-> JsonObject(EntitiesString, Undefined, Undefined)]
      [] cleaned = TextEntityData ->
            [ok |-> TRUE,
             value |-> JsonObject(EntityList(<<"Tornado Cash">>), "escalating", "Mixer sanctions")]
      [] cleaned = TextTweets ->
            [ok |-> TRUE, value |-> JsonArray(<<"tweet one", "tweet two">>, TRUE)]
      [] cleaned = TextNumberArray ->
            [ok |-> TRUE, value |-> JsonArray(<<"5">>, FALSE)]
      [] OTHER -> [ok |-> FALSE, value |-> JsonNull]

----------------------------------------------------------------------------
(* Synthesizer: the passes *)

\* callGitHubModel: null without a token, on a non-ok status, on a rejected
\* fetch and when the answer holds no content; otherwise the content.
callGitHubModel(outcome) ==
    IF outcome.kind = "content" THEN outcome.text ELSE Null

\* extractEntities, line 46: the value returned for no events.
EmptyEntityData == JsonObject(EntityList(<<>>), Undefined, Undefined)

\* extractEntities, line 76: the value returned when the call or the parse fails.
FallbackEntityData ==
    JsonObject(EntityList(<<>>), "stable", "Insufficient data for analysis")

\* extractEntities after its call.
extractEntities(result) ==
    IF result # Null /\ JSONparse(CleanJson(result)).ok
    THEN JSONparse(CleanJson(result)).value
    ELSE FallbackEntityData

\* e._category || "general"
CategoryOf(e) == IF Truthy(Get(e, "_category")) THEN Get(e, "_category") ELSE "general"

\* Object.keys(byCategory)
Categories(ev) == {CategoryOf(ev[i]) : i \in 1..Len(ev)}

\* The keys of byCategory, in the order the forEach creates them.
RECURSIVE CategoryOrder(_, _)
CategoryOrder(ev, seen) ==
    IF ev = <<>> THEN <<>>
    ELSE IF CategoryOf(Head(ev)) \in seen
         THEN CategoryOrder(Tail(ev), seen)
         ELSE <<CategoryOf(Head(ev))>>
              \o CategoryOrder(Tail(ev), seen \cup {CategoryOf(Head(ev))})

\* Object.entries(byCategory) after the forEach of lines 84-88 (the same
\* code at lines 182-186 and 228-232): each category with its events.
byCategory(ev) ==
    LET cats == CategoryOrder(ev, {})
    IN  [k \in 1..Len(cats) |->
            [cat |-> cats[k],
             items |-> SelectSeq(ev, LAMBDA e : CategoryOf(e) = cats[k])]]

Min(a, b) == IF a <= b THEN a ELSE b

\* a || b || c on the fields of an event.
FirstTruthy(e, k1, k2, default) ==
    IF Truthy(Get(e, k1)) THEN Get(e, k1)
    ELSE IF Truthy(Get(e, k2)) THEN Get(e, k2) ELSE default

\* Mutant of eventText: every event gets a line.
eventText_NoCap(ev) ==
    [i \in 1..Len(ev) |->
        <<Get(ev[i], "_category"),
          FirstTruthy(ev[i], "title", "text", "Signal"),
          FirstTruthy(ev[i], "source", "source", "unknown")>>]

\* extractEntities, lines 48-50: a line for each of the first 30 events.
eventText(ev) ==
    [i \in 1..Min(30, Len(ev)) |->
        <<Get(ev[i], "_category"),
          FirstTruthy(ev[i], "title", "text", "Signal"),
          FirstTruthy(ev[i], "source", "source", "unknown")>>]

\* Mutant of eventSummary: the count printed is that of the listed signals.
eventSummary_CountsListed(ev) ==
    [k \in 1..Len(byCategory(ev)) |->
        LET items == byCategory(ev)[k].items
        IN  [cat |-> byCategory(ev)[k].cat,
             count |-> Min(5, Len(items)),
             summaries |-> [i \in 1..Min(5, Len(items)) |->
                 <<FirstTruthy(items[i], "source", "source", "Unknown"),
                   FirstTruthy(items[i], "title", "text", "Signal")>>]]]

\* generateMainBrief, lines 90-99: for each category its count and a line
\* for each of its first 5 events; no entry stands for "No events detected".
eventSummary(ev) ==
    [k \in 1..Len(byCategory(ev)) |->
        LET items == byCategory(ev)[k].items
        IN  [cat |-> byCategory(ev)[k].cat,
             count |-> Len(items),
             summaries |-> [i \in 1..Min(5, Len(items)) |->
                 <<FirstTruthy(items[i], "source", "source", "Unknown"),
                   FirstTruthy(items[i], "title", "text", "Signal")>>]]]

\* s with x put behind every element whose count is not smaller.
RECURSIVE InsertByCount(_, _)
InsertByCount(s, x) ==
    IF s = <<>> THEN <<x>>
    ELSE IF s[Len(s)].count >= x.count
         THEN Append(s, x)
         ELSE Append(InsertByCount(SubSeq(s, 1, Len(s) - 1), x), s[Len(s)])

RECURSIVE SortByCount(_)
SortByCount(s) ==
    IF s = <<>> THEN <<>>
    ELSE InsertByCount(SortByCount(SubSeq(s, 1, Len(s) - 1)), s[Len(s)])

\* buildPage, lines 234-237: category and count, the larger counts first.
categoryStats(ev) ==
    SortByCount([k \in 1..Len(byCategory(ev)) |->
        [cat |-> byCategory(ev)[k].cat, count |-> Len(byCategory(ev)[k].items)]])

\* The text a pass produced, or the locally computed brief.
Brief(kind, text, count, categories, riskLevel, riskScore) ==
    [kind |-> kind, text |-> text, count |-> count, categories |-> categories,
     riskLevel |-> riskLevel, riskScore |-> riskScore]
NoBrief == Brief("none", "", 0, 0, "", 0)
ModelBrief(text) == Brief("model", text, 0, 0, "", 0)

\* Mutant of generateFallbackBrief: the thresholds are inclusive.
generateFallbackBrief_Inclusive(ev) ==
    LET count == Len(ev)
    IN  Brief("fallback", "", count, Cardinality(Categories(ev)),
              IF count >= 15 THEN "critical" ELSE IF count >= 8 THEN "high"
                  ELSE IF count >= 3 THEN "medium" ELSE "low",
              IF count >= 15 THEN 8 ELSE IF count >= 8 THEN 6
                  ELSE IF count >= 3 THEN 4 ELSE 2)

generateFallbackBrief(ev) ==
    LET count == Len(ev)
    IN  Brief("fallback", "", count, Cardinality(Categories(ev)),
              IF count > 15 THEN "critical" ELSE IF count > 8 THEN "high"
                  ELSE IF count > 3 THEN "medium" ELSE "low",
              IF count > 15 THEN 8 ELSE IF count > 8 THEN 6
                  ELSE IF count > 3 THEN 4 ELSE 2)

\* generateMainBrief after its call; a text that is empty once cleaned is
\* falsy at `if (!briefHtml)` like null.
generateMainBrief(result, ev) ==
    IF result # Null /\ CleanHtml(result) # ""
    THEN ModelBrief(CleanHtml(result))
    ELSE generateFallbackBrief(ev)

\* generateSocialContent, lines 174-176: the single post.
FallbackSocial(ev) ==
    JsonArray(<<"Weekly CryptoThreat Radar Brief: " \o ToString(Len(ev))
                \o " threat signals detected">>, TRUE)

\* generateSocialContent after its call.
generateSocialContent(result, ev) ==
    IF result # Null /\ JSONparse(CleanJson(result)).ok
    THEN JSONparse(CleanJson(result)).value
    ELSE FallbackSocial(ev)

\* [...new Set(events.map(e => e._category))], in order of first occurrence.
RECURSIVE threatCategories(_, _)
threatCategories(ev, seen) ==
    IF ev = <<>> THEN <<>>
    ELSE IF Get(Head(ev), "_category") \in seen
         THEN threatCategories(Tail(ev), seen)
         ELSE <<Get(Head(ev), "_category")>>
              \o threatCategories(Tail(ev), seen \cup {Get(Head(ev), "_category")})

\* The page buildPage returns, as far as it depends on the run.
buildPage(brief, ev, ed, sc) ==
    [briefHtml |-> brief, eventCount |-> Len(ev), categories |-> Categories(ev),
     categoryStats |-> categoryStats(ev),
     entities |-> ed.entities.list, trend |-> ed.trend, tweets |-> sc.items]

\* The object written to data/latest-brief.json.
BriefRecord(brief, ev, ed, sc) ==
    [eventCount |-> Len(ev), threatCategories |-> threatCategories(ev, {}),
     entities |-> ed.entities.list, trend |-> ed.trend, topRisk |-> ed.top_risk,
     socialThread |-> sc, briefHtml |-> brief]

----------------------------------------------------------------------------
(* Both processes are separate invocations: while one runs, the variables   *)
(* of the other keep these values.                                          *)

CollectorIdle ==
    /\ API_KEY = "secret"
    /\ pc = "idle"
    /\ qi = 1
    /\ allResults = <<>>
    /\ lastResponse = NoResponse
    /\ failures = 0
    /\ requests = <<>>
    /\ writes = 0
    /\ exitCode = "none"

SynthIdle ==
    /\ GITHUB_TOKEN = "token"
    /\ spc = "idle"
    /\ events = JsonArrayFile(<<>>)
    /\ entityData = JsonNull
    /\ briefHtml = NoBrief
    /\ socialContent = JsonNull
    /\ digest1 = <<>>
    /\ digest2 = <<>>
    /\ passOutcome = [p \in 1..3 |-> NotCalled]
    /\ modelCalls = <<>>
    /\ indexHtml = <<>>
    /\ latestBrief = <<>>

----------------------------------------------------------------------------
(* Collector: the process *)

Init ==
    /\ API_KEY \in {Undefined, "", "secret"}
    /\ pc = "start"
    /\ qi = 1
    /\ allResults = <<>>
    /\ lastResponse = NoResponse
    /\ failures = 0
    /\ requests = <<>>
    /\ eventsFile = PriorEventSet
    /\ writes = 0
    /\ exitCode = "none"
    /\ SynthIdle

\* Module top level, lines 4-9, then the call of updateData().
CheckApiKey ==
    /\ pc = "start"
    /\ IF ~Truthy(API_KEY)
       THEN /\ pc' = "exited"
            /\ exitCode' = "1"
       ELSE /\ pc' = "fetch"
            /\ exitCode' = exitCode
    /\ UNCHANGED <<API_KEY, qi, allResults, lastResponse, failures, requests, eventsFile, writes>>
    /\ UNCHANGED synthVars

\* Mutant of fetchData: the accumulated records are saved after every query.
fetchData_SaveEachQuery ==
    /\ pc = "fetch"
    /\ qi <= NumQueries
    /\ \E resp \in Responses(MaxSignals - Len(allResults)) :
          /\ requests' = Append(requests, qi)
          /\ lastResponse' = resp
          /\ failures' = IF Failed(resp) THEN failures + 1 ELSE failures
          /\ allResults' = allResults \o HandleResponse(queries[qi], resp)
    /\ eventsFile' = JsonArrayFile(unique(allResults'))
    /\ writes' = writes + 1
    /\ qi' = qi + 1
    /\ UNCHANGED <<API_KEY, pc, exitCode>>
    /\ UNCHANGED synthVars

\* Mutant of fetchData: a request that failed is issued once more.
fetchData_RetryOnce ==
    /\ pc = "fetch"
    /\ qi <= NumQueries
    /\ \E resp \in Responses(MaxSignals - Len(allResults)) :
          /\ requests' = Append(requests, qi)
          /\ lastResponse' = resp
          /\ failures' = IF Failed(resp) THEN failures + 1 ELSE failures
          /\ allResults' = allResults \o HandleResponse(queries[qi], resp)
          /\ qi' = IF Failed(resp) /\ (requests = <<>> \/ requests[Len(requests)] # qi)
                   THEN qi
                   ELSE qi + 1
    /\ UNCHANGED <<API_KEY, pc, eventsFile, writes, exitCode>>
    /\ UNCHANGED synthVars

\* One iteration of `for (const query of queries)`.
fetchData ==
    /\ pc = "fetch"
    /\ qi <= NumQueries
    /\ \E resp \in Responses(MaxSignals - Len(allResults)) :
          /\ requests' = Append(requests, qi)
          /\ lastResponse' = resp
          /\ failures' = IF Failed(resp) THEN failures + 1 ELSE failures
          /\ allResults' = allResults \o HandleResponse(queries[qi], resp)
    /\ qi' = qi + 1
    /\ UNCHANGED <<API_KEY, pc, eventsFile, writes, exitCode>>
    /\ UNCHANGED synthVars

\* Mutant of saveData: the new records are merged into the file of the
\* previous run instead of replacing it.
saveData_MergeWithPrior ==
    /\ pc = "fetch"
    /\ qi > NumQueries
    /\ \E sorted \in SortOutcomes(allResults) :
          /\ allResults' = sorted
          /\ eventsFile' = JsonArrayFile(unique(sorted \o eventsFile.value))
    /\ writes' = writes + 1
    /\ pc' = "done"
    /\ exitCode' = "0"
    /\ UNCHANGED <<API_KEY, qi, lastResponse, failures, requests>>
    /\ UNCHANGED synthVars

\* Mutant of saveData: an empty result is taken for a failed update.
saveData_EmptyIsAnError ==
    /\ pc = "fetch"
    /\ qi > NumQueries
    /\ IF allResults = <<>>
       THEN /\ pc' = "exited"
            /\ exitCode' = "1"
            /\ UNCHANGED <<allResults, eventsFile, writes>>
       ELSE /\ \E sorted \in SortOutcomes(allResults) :
                  /\ allResults' = sorted
                  /\ eventsFile' = JsonArrayFile(unique(sorted))
            /\ writes' = writes + 1
            /\ pc' = "done"
            /\ exitCode' = "0"
    /\ UNCHANGED <<API_KEY, qi, lastResponse, failures, requests>>
    /\ UNCHANGED synthVars

\* `return allResults`, then saveData(data) and the end of updateData.
saveData ==
    /\ pc = "fetch"
    /\ qi > NumQueries
    /\ \E sorted \in SortOutcomes(allResults) :
          /\ allResults' = sorted
          /\ eventsFile' = JsonArrayFile(unique(sorted))
    /\ writes' = writes + 1
    /\ pc' = "done"
    /\ exitCode' = "0"
    /\ UNCHANGED <<API_KEY, qi, lastResponse, failures, requests>>
    /\ UNCHANGED synthVars

Next == CheckApiKey \/ fetchData \/ saveData

Spec == Init /\ [][Next]_vars

----------------------------------------------------------------------------
(* Collector, second script of src/unnamed/part_000 (lines 122-237): the    *)
(* same process with four QuerySpecs of two fields and two tags per record.  *)

queriesBasic == <<
    [entities |-> "cryptocurrency exchanges", topic |-> "sanctions"],
    [entities |-> "cryptocurrency services",  topic |-> "regulatory enforcement"],
    [entities |-> "DeFi protocols",           topic |-> "sanctions evasion"],
    [entities |-> "cryptocurrency mixers",    topic |-> "money laundering"] >>

\* The forEach of lines 190-193 on one element.
TagBasic(r, query) ==
    SetField(SetField(r, "_category", query.topic), "_entities", query.entities)

\* One iteration of the for-loop of lines 163-200: the records it pushes.
HandleResponseBasic(query, resp) ==
    IF resp.kind = "array" /\ \A i \in 1..Len(resp.items) : resp.items[i].isObject
    THEN [i \in 1..Len(resp.items) |-> TagBasic(resp.items[i].fields, query)]
    ELSE <<>>

fetchDataBasic ==
    /\ pc = "fetch"
    /\ qi <= NumQueries
    /\ \E resp \in Responses(MaxSignals - Len(allResults)) :
          /\ requests' = Append(requests, qi)
          /\ lastResponse' = resp
          /\ failures' = IF Failed(resp) THEN failures + 1 ELSE failures
          /\ allResults' = allResults \o HandleResponseBasic(queriesBasic[qi], resp)
    /\ qi' = qi + 1
    /\ UNCHANGED <<API_KEY, pc, eventsFile, writes, exitCode>>
    /\ UNCHANGED synthVars

\* The key check of lines 127-130 and saveData of lines 208-224 are the same
\* code as in the first script.
BasicNext == CheckApiKey \/ fetchDataBasic \/ saveData

BasicSpec == Init /\ [][BasicNext]_vars

----------------------------------------------------------------------------
(* Synthesizer: the process.  An exception that leaves generateBrief is an  *)
(* unhandled rejection: the process ends there ("crashed").                 *)

SynthInit ==
    /\ CollectorIdle
    /\ eventsFile \in EventFiles
    /\ GITHUB_TOKEN \in {Undefined, "token"}
    /\ spc = "start"
    /\ events = JsonArrayFile(<<>>)
    /\ entityData = JsonNull
    /\ briefHtml = NoBrief
    /\ socialContent = JsonNull
    /\ digest1 = <<>>
    /\ digest2 = <<>>
    /\ passOutcome = [p \in 1..3 |-> NotCalled]
    /\ modelCalls = <<>>
    /\ indexHtml = <<>>
    /\ latestBrief = <<>>

\* The request of pass p, when callGitHubModel gets as far as sending one.
Called(p, outcome) ==
    /\ passOutcome' = [passOutcome EXCEPT ![p] = outcome]
    /\ modelCalls' = IF outcome.kind = "no_token" THEN modelCalls ELSE Append(modelCalls, p)

\* Lines 874-881: a file that cannot be read or parsed leaves events = [].
readEvents ==
    /\ spc = "start"
    /\ events' = IF eventsFile.kind \in {"absent", "invalid_json"}
                 THEN JsonArrayFile(<<>>)
                 ELSE eventsFile
    /\ spc' = "pass1"
    /\ UNCHANGED <<GITHUB_TOKEN, entityData, briefHtml, socialContent, digest1, digest2,
                   passOutcome, modelCalls, indexHtml, latestBrief>>
    /\ UNCHANGED <<collectorVars, eventsFile>>

\* Mutant of pass1: without the early return of line 46 the service is
\* asked about an empty EventSet too.
pass1_CallsOnEmpty ==
    /\ spc = "pass1"
    /\ IF events.kind # "json_array"
       THEN /\ spc' = "crashed"
            /\ UNCHANGED <<entityData, digest1, passOutcome, modelCalls>>
       ELSE \E outcome \in CallOutcomes :
              /\ digest1' = eventText(events.value)
              /\ Called(1, outcome)
              /\ entityData' = extractEntities(callGitHubModel(outcome))
              /\ spc' = IF entityData'.type = "null" THEN "crashed" ELSE "pass2"
    /\ UNCHANGED <<GITHUB_TOKEN, events, briefHtml, socialContent, digest2, indexHtml, latestBrief>>
    /\ UNCHANGED <<collectorVars, eventsFile>>

\* Lines 888-889.  events.length, events.slice and e._category throw on
\* null, on a non-array and on a null element; the log line reads
\* entityData.entities and throws when the model answered `null`.
pass1 ==
    /\ spc = "pass1"
    /\ IF events.kind # "json_array"
       THEN /\ spc' = "crashed"
            /\ UNCHANGED <<entityData, digest1, passOutcome, modelCalls>>
       ELSE IF events.value = <<>>
       THEN /\ entityData' = EmptyEntityData
            /\ spc' = "pass2"
            /\ UNCHANGED <<digest1, passOutcome, modelCalls>>
       ELSE \E outcome \in CallOutcomes :
              /\ digest1' = eventText(events.value)
              /\ Called(1, outcome)
              /\ entityData' = extractEntities(callGitHubModel(outcome))
              /\ spc' = IF entityData'.type = "null" THEN "crashed" ELSE "pass2"
    /\ UNCHANGED <<GITHUB_TOKEN, events, briefHtml, socialContent, digest2, indexHtml, latestBrief>>
    /\ UNCHANGED <<collectorVars, eventsFile>>

\* Lines 893-897.  entityData.entities.map throws, before the call, when
\* `entities` is a non-empty string.
pass2 ==
    /\ spc = "pass2"
    /\ IF entityData.entities.shape = "string"
       THEN /\ spc' = "crashed"
            /\ UNCHANGED <<briefHtml, digest2, passOutcome, modelCalls>>
       ELSE \E outcome \in CallOutcomes :
              /\ digest2' = eventSummary(events.value)
              /\ Called(2, outcome)
              /\ briefHtml' = generateMainBrief(callGitHubModel(outcome), events.value)
              /\ spc' = "pass3"
    /\ UNCHANGED <<GITHUB_TOKEN, events, entityData, socialContent, digest1, indexHtml, latestBrief>>
    /\ UNCHANGED <<collectorVars, eventsFile>>

\* Lines 901-902.  The log line reads socialContent.length and throws when
\* the model answered `null`.
pass3 ==
    /\ spc = "pass3"
    /\ \E outcome \in CallOutcomes :
          /\ Called(3, outcome)
          /\ socialContent' = generateSocialContent(callGitHubModel(outcome), events.value)
          /\ spc' = IF socialContent'.type = "null" THEN "crashed" ELSE "build"
    /\ UNCHANGED <<GITHUB_TOKEN, events, entityData, briefHtml, digest1, digest2,
                   indexHtml, latestBrief>>
    /\ UNCHANGED <<collectorVars, eventsFile>>

\* Lines 905-908.  buildPage calls socialContent.map and tweet.replace: they
\* throw unless socialContent is an array of strings.
writeReport ==
    /\ spc = "build"
    /\ IF socialContent.type = "array" /\ (socialContent.strings \/ socialContent.items = <<>>)
       THEN /\ indexHtml' = <<buildPage(briefHtml, events.value, entityData, socialContent)>>
            /\ spc' = "record"
       ELSE /\ spc' = "crashed"
            /\ UNCHANGED indexHtml
    /\ UNCHANGED <<GITHUB_TOKEN, events, entityData, briefHtml, socialContent,
                   digest1, digest2, passOutcome, modelCalls, latestBrief>>
    /\ UNCHANGED <<collectorVars, eventsFile>>

\* Lines 911-925.
writeRecord ==
    /\ spc = "record"
    /\ latestBrief' = <<BriefRecord(briefHtml, events.value, entityData, socialContent)>>
    /\ spc' = "done"
    /\ UNCHANGED <<GITHUB_TOKEN, events, entityData, briefHtml, socialContent,
                   digest1, digest2, passOutcome, modelCalls, indexHtml>>
    /\ UNCHANGED <<collectorVars, eventsFile>>

SynthNext == readEvents \/ pass1 \/ pass2 \/ pass3 \/ writeReport \/ writeRecord

SynthSpec == SynthInit /\ [][SynthNext]_vars

----------------------------------------------------------------------------
(* Synthesizer on EventSets long enough for the count thresholds of the     *)
(* fallback brief and the caps of the digests.                              *)

\* The longest EventSet of these runs.
MaxDigestEvents == 31

\* The k-th event of an EventSet: two categories and untagged events in
\* turn, each event with a title of its own.
DigestEvent(k) ==
    CASE k % 3 = 1 -> << <<"title", ToString(k)>>, <<"_category", "sanctions">> >>
      [] k % 3 = 2 -> << <<"title", ToString(k)>> >>
      [] k % 3 = 0 -> << <<"title", ToString(k)>>, <<"_category", "exploit">> >>

\* The lengths at and right above each threshold and cap of the code
\* (3, 8, 15 of generateFallbackBrief, 30 of extractEntities), and the longest.
DigestSizes ==
    {n \in 0..MaxDigestEvents :
        \/ \E t \in {0, 3, 8, 15, 30} : n \in {t, t + 1}
        \/ n = MaxDigestEvents}

DigestEventSets == {[k \in 1..n |-> DigestEvent(k)] : n \in DigestSizes}

DigestInit ==
    /\ CollectorIdle
    /\ eventsFile \in {JsonArrayFile(ev) : ev \in DigestEventSets}
    /\ GITHUB_TOKEN \in {Undefined, "token"}
    /\ spc = "start"
    /\ events = JsonArrayFile(<<>>)
    /\ entityData = JsonNull
    /\ briefHtml = NoBrief
    /\ socialContent = JsonNull
    /\ digest1 = <<>>
    /\ digest2 = <<>>
    /\ passOutcome = [p \in 1..3 |-> NotCalled]
    /\ modelCalls = <<>>
    /\ indexHtml = <<>>
    /\ latestBrief = <<>>

DigestSpec == DigestInit /\ [][SynthNext]_vars

----------------------------------------------------------------------------
(* One run of either script. *)

RunInit == Init \/ SynthInit

RunNext == Next \/ SynthNext

RunSpec == RunInit /\ [][RunNext]_vars

----------------------------------------------------------------------------
(* Collector: properties *)

\* The EventSet that data/events.json holds.
EventSet == eventsFile.value
Url(e) == Get(e, "url")
Time(e) == NewDate(Get(e, "timestamp"))
\* The entries of the written EventSet that carry url u.
EntriesWithUrl(u) == {k \in 1..Len(EventSet) : Url(EventSet[k]) = u}
\* The record as the source returned it: the entry without the four tags.
Raw(e) == SelectSeq(e, LAMBDA f : f[1] \notin {"_category", "_severity", "_entities", "_topic"})
\* The members of an object, whatever their order.
Members(e) == {e[k] : k \in 1..Len(e)}
InFile(e) == \E k \in 1..Len(EventSet) : EventSet[k] = e

\* C1: of two accumulated signals with the same non-empty url the EventSet
\* holds exactly one entry for that url, and when both timestamps are valid
\* dates it is an accumulated record whose timestamp is not earlier than
\* either (so it carries the tags of the query that returned the later one).
C1_LaterUrlSurvives ==
    pc = "done" =>
        \A i, j \in 1..Len(allResults) :
            (i # j /\ Truthy(Url(allResults[i])) /\ Url(allResults[i]) = Url(allResults[j]))
            => /\ Cardinality(EntriesWithUrl(Url(allResults[i]))) = 1
               /\ \A k \in EntriesWithUrl(Url(allResults[i])) :
                     /\ \E m \in 1..Len(allResults) : allResults[m] = EventSet[k]
                     /\ (~Time(allResults[i]).nan /\ ~Time(allResults[j]).nan)
                        => /\ ~Time(EventSet[k]).nan
                           /\ Time(EventSet[k]).t >= Time(allResults[i]).t
                           /\ Time(EventSet[k]).t >= Time(allResults[j]).t

\* C2: no two entries of a written EventSet share the deduplication key: the
\* url when present and non-empty, otherwise the serialization of the entry.
C2_KeysDistinct ==
    pc = "done" =>
        \A i, j \in 1..Len(EventSet) :
            i # j =>
                LET a == EventSet[i]
                    b == EventSet[j]
                    aUrl == HasField(a, "url") /\ Url(a) # ""
                    bUrl == HasField(b, "url") /\ Url(b) # ""
                IN  /\ (aUrl /\ bUrl) => Url(a) # Url(b)
                    /\ (~aUrl /\ ~bUrl) => JSONstringify(a) # JSONstringify(b)

\* A run wrote its EventSet and deduplication dropped at least one record.
C2_Witness == pc = "done" /\ Len(EventSet) < Len(allResults) /\ Len(EventSet) >= 2

\* C3: in a written EventSet every entry's timestamp is >= the next entry's,
\* a missing or unparseable timestamp counting as zero.
C3_DescendingWithInvalidLast ==
    pc = "done" =>
        \A k \in 1..(Len(EventSet) - 1) :
            LET t1 == IF Time(EventSet[k]).nan THEN 0 ELSE Time(EventSet[k]).t
                t2 == IF Time(EventSet[k + 1]).nan THEN 0 ELSE Time(EventSet[k + 1]).t
            IN  t1 >= t2

\* C4: a record returned by two different QuerySpecs (same fields, different
\* tags) is represented by exactly one entry of the EventSet, with or
\* without a url.
C4_SameSignalCollapses ==
    pc = "done" =>
        \A i, j \in 1..Len(allResults) :
            (Raw(allResults[i]) = Raw(allResults[j])
                /\ Get(allResults[i], "_topic") # Get(allResults[j], "_topic"))
            => Cardinality({k \in 1..Len(EventSet) :
                               Raw(EventSet[k]) = Raw(allResults[i])}) = 1

\* C5: of two accumulated signals without a url, those with the same members
\* (in whatever order) are represented by one entry, and those that differ
\* in a member are both in the EventSet.
C5_UrlLessByContent ==
    pc = "done" =>
        \A i, j \in 1..Len(allResults) :
            (i # j /\ ~Truthy(Url(allResults[i])) /\ ~Truthy(Url(allResults[j])))
            => IF Members(allResults[i]) = Members(allResults[j])
               THEN Cardinality({k \in 1..Len(EventSet) :
                        Members(EventSet[k]) = Members(allResults[i])}) = 1
               ELSE InFile(allResults[i]) /\ InFile(allResults[j])

\* C6: a request that fails adds nothing and one that succeeds adds every
\* record it returned, tagged; either way the loop moves to the next
\* QuerySpec without ending the run, and a run that ends has asked them all.
C6_FailureIsZeroResults ==
    /\ [][(pc = "fetch" /\ qi <= NumQueries) =>
            /\ pc' = "fetch"
            /\ exitCode' = "none"
            /\ qi' = qi + 1
            /\ allResults' = allResults \o
                  (IF Failed(lastResponse')
                   THEN <<>>
                   ELSE [i \in 1..Len(lastResponse'.items) |->
                            Tag(lastResponse'.items[i].fields, queries[qi])])]_vars
    /\ [](pc = "done" => Len(requests) = NumQueries)

\* A request succeeded with records after an earlier request had failed.
C6_Witness ==
    /\ failures >= 1
    /\ ~Failed(lastResponse)
    /\ lastResponse.kind = "array"
    /\ Len(lastResponse.items) >= 1
    /\ Len(allResults) >= 1

\* C7: when every request of the run has failed, the run does not exit with
\* an error: it goes on to write the empty EventSet and ends normally.
C7_TotalFailureWritesEmpty ==
    (pc # "start" /\ qi > NumQueries /\ failures = NumQueries) =>
        \/ pc = "fetch" /\ exitCode = "none" /\ ENABLED saveData
        \/ pc = "done" /\ exitCode = "0" /\ writes = 1 /\ EventSet = <<>>

\* A run in which every request failed has ended.
C7_Witness == pc = "done" /\ failures = NumQueries /\ EventSet = <<>>

\* C8: with RAPIDAPI_KEY missing the process exits with status 1 at its
\* first step, no request is ever issued and events.json is left as it was.
C8_MissingKeyIsFatal ==
    API_KEY \in {Undefined, ""} =>
        /\ pc \in {"start", "exited"}
        /\ pc = "exited" => exitCode = "1"
        /\ requests = <<>>
        /\ writes = 0
        /\ eventsFile = PriorEventSet

\* The process has exited for want of the key.
C8_Witness == API_KEY = "" /\ pc = "exited" /\ exitCode = "1"

\* C15: the EventSet a run writes holds only records accumulated in that
\* run; nothing of the file of the previous run is kept, unless the run
\* fetched that very entry again.
C15_PriorFullyReplaced ==
    pc = "done" =>
        /\ \A k \in 1..Len(EventSet) :
              \E m \in 1..Len(allResults) : allResults[m] = EventSet[k]
        /\ \A k \in 1..Len(PriorEventSet.value) :
              InFile(PriorEventSet.value[k])
                  => \E m \in 1..Len(allResults) : allResults[m] = PriorEventSet.value[k]

\* A run has replaced the file of the previous run by records of its own.
C15_Witness == pc = "done" /\ EventSet # <<>> /\ eventsFile # PriorEventSet

\* C17: the requests issued so far are those for QuerySpecs 1, 2, ... in
\* list order, one each; every step that issues a request is the one for the
\* QuerySpec the loop is at, it resolves in that step (success or failure),
\* the loop then moves on whatever the outcome, and a run that ends has
\* issued exactly one request per QuerySpec.
C17_OneRequestPerQueryInOrder ==
    /\ [](requests = [i \in 1..(qi - 1) |-> i])
    /\ [](pc = "done" => qi = NumQueries + 1)
    /\ [][requests' # requests =>
            /\ requests' = Append(requests, qi)
            /\ lastResponse'.kind # "none"
            /\ qi' = qi + 1]_vars

\* Every QuerySpec has been asked, one request failed and one delivered.
C17_Witness ==
    /\ Len(requests) = NumQueries
    /\ failures >= 1
    /\ Len(allResults) >= 1

\* The four tags of an entry are those of QuerySpec q.
TagsOf(e, q) ==
    /\ HasField(e, "_category") /\ Get(e, "_category") = queries[q].category
    /\ HasField(e, "_severity") /\ Get(e, "_severity") = queries[q].severity
    /\ HasField(e, "_entities") /\ Get(e, "_entities") = queries[q].entities
    /\ HasField(e, "_topic") /\ Get(e, "_topic") = queries[q].topic

\* C19: every entry of a written EventSet is an accumulated record that
\* carries a category, a severity, an entity filter and a topic filter, all
\* four those of one QuerySpec the run has asked.
C19_FourTagsOfOneQuery ==
    pc = "done" =>
        \A k \in 1..Len(EventSet) :
            /\ \E m \in 1..Len(allResults) : allResults[m] = EventSet[k]
            /\ \E q \in 1..NumQueries : TagsOf(EventSet[k], q)

\* C20: every field of every record of a response is, with its name and its
\* value, in the entry accumulated for that record, and the entries are
\* written as they were accumulated.
C20_FieldsSurvive ==
    /\ (pc = "fetch" /\ lastResponse.kind = "array" /\ ~Failed(lastResponse)) =>
          LET n == Len(lastResponse.items)
              base == Len(allResults) - n
          IN  \A i \in 1..n :
                  \A f \in 1..Len(lastResponse.items[i].fields) :
                      Get(allResults[base + i], lastResponse.items[i].fields[f][1])
                          = lastResponse.items[i].fields[f][2]
    /\ pc = "done" =>
          \A k \in 1..Len(EventSet) :
              \E m \in 1..Len(allResults) : allResults[m] = EventSet[k]

\* The QuerySpec an accumulated record was tagged by (the topics of the
\* list are all different).
QueryOf(e) == CHOOSE q \in 1..Len(queries) : queries[q].topic = Get(e, "_topic")

C26_NothingInventedOrLost ==
    pc = "done" =>
        /\ \A k \in 1..Len(EventSet) :
              \E m \in 1..Len(allResults) : allResults[m] = EventSet[k]
        /\ \A m \in 1..Len(allResults) :
              Cardinality({k \in 1..Len(EventSet) :
                              Key(EventSet[k]) = Key(allResults[m])}) = 1

\* One request failed, the other delivered three records, two of one key.
C26_Witness ==
    /\ pc = "done"
    /\ failures = 1
    /\ Len(allResults) = 3
    /\ Len(EventSet) = 2
    /\ \E k \in 1..Len(EventSet) : ~Truthy(Url(EventSet[k]))

----------------------------------------------------------------------------
(* Synthesizer: properties *)

SynthEnded == spc \in {"done", "crashed"}

\* The call of a pass failed: non-ok status, network error or no content.
CallFailed(o) == o.kind \in {"http_error", "network_error", "no_content"}
\* The call of a pass returned a text that JSON.parse rejects.
Unparseable(o) == o.kind = "content" /\ ~JSONparse(CleanJson(o.text)).ok
PassFailed(p) ==
    \/ CallFailed(passOutcome[p])
    \/ p \in {1, 3} /\ Unparseable(passOutcome[p])

\* The answer of pass 1 parses, but not to an object with an entities list.
WrongShape1(o) ==
    /\ o.kind = "content"
    /\ JSONparse(CleanJson(o.text)).ok
    /\ LET v == JSONparse(CleanJson(o.text)).value
       IN  ~(v.type = "object" /\ v.entities.shape = "list")
\* The answer of pass 3 parses, but not to an array of strings.
WrongShape3(o) ==
    /\ o.kind = "content"
    /\ JSONparse(CleanJson(o.text)).ok
    /\ LET v == JSONparse(CleanJson(o.text)).value
       IN  ~(v.type = "array" /\ v.strings)

\* C9: a run in which the call of some pass failed or returned unparseable
\* text ends with index.html and latest-brief.json written, and what they
\* hold for a failed pass is the fallback content of that pass.
C9_FallbackCompleteness ==
    (SynthEnded /\ \E p \in 1..3 : PassFailed(p)) =>
        /\ spc = "done"
        /\ indexHtml # <<>>
        /\ latestBrief # <<>>
        /\ PassFailed(1) =>
              /\ entityData = FallbackEntityData
              /\ latestBrief[1].entities = <<>>
              /\ latestBrief[1].trend = "stable"
              /\ latestBrief[1].topRisk = "Insufficient data for analysis"
        /\ PassFailed(2) =>
              /\ latestBrief[1].briefHtml = generateFallbackBrief(events.value)
              /\ indexHtml[1].briefHtml = generateFallbackBrief(events.value)
        /\ PassFailed(3) =>
              /\ latestBrief[1].socialThread = FallbackSocial(events.value)
              /\ indexHtml[1].tweets = FallbackSocial(events.value).items

\* C10: a run in which the answer of pass 1 or of pass 3 parses as JSON of
\* the wrong shape does not fail, and the content of that pass is the
\* fallback content.
C10_WrongShapeFallsBack ==
    (SynthEnded /\ (WrongShape1(passOutcome[1]) \/ WrongShape3(passOutcome[3]))) =>
        /\ spc = "done"
        /\ WrongShape1(passOutcome[1]) => entityData = FallbackEntityData
        /\ WrongShape3(passOutcome[3]) => socialContent = FallbackSocial(events.value)

\* C11: whatever data/events.json holds and whatever each text-generation
\* call resolves to, a run that has ended has ended normally, with index.html
\* and data/latest-brief.json written.
C11_AlwaysCompletes ==
    SynthEnded =>
        /\ spc = "done"
        /\ indexHtml # <<>>
        /\ latestBrief # <<>>

\* The file is missing, or holds a text JSON.parse rejects.
FileUnreadable == eventsFile.kind \in {"absent", "invalid_json"}

\* C12: with data/events.json missing or unparseable the run goes on with
\* events = [], it does not fail, and what it writes is what a run on an
\* EventSet of zero signals writes: pass 1 makes no call and the page and the
\* record are built from no events and the entity data of line 46.
C12_MissingFileIsEmpty ==
    FileUnreadable =>
        /\ spc # "start" => events = JsonArrayFile(<<>>)
        /\ spc # "crashed"
        /\ passOutcome[1] = NotCalled
        /\ spc = "done" =>
              /\ indexHtml = <<buildPage(briefHtml, <<>>, EmptyEntityData, socialContent)>>
              /\ latestBrief = <<BriefRecord(briefHtml, <<>>, EmptyEntityData, socialContent)>>

\* C13: with GITHUB_TOKEN missing no request is ever sent to the service,
\* the brief is the locally computed one, and the run ends normally with
\* index.html and data/latest-brief.json written.
C13_NoTokenDegrades ==
    GITHUB_TOKEN = Undefined =>
        /\ modelCalls = <<>>
        /\ spc # "crashed"
        /\ spc \in {"pass3", "build", "record", "done"} =>
              briefHtml = generateFallbackBrief(events.value)
        /\ spc = "done" =>
              /\ indexHtml # <<>>
              /\ indexHtml[1].briefHtml = generateFallbackBrief(events.value)
              /\ latestBrief # <<>>
              /\ latestBrief[1].briefHtml = generateFallbackBrief(events.value)

\* C14: a run on the empty EventSet writes a page and a record that state
\* zero signals and report the trend as "stable", and the locally computed
\* brief, when it is the one used, counts zero signals under the "low" label.
C14_EmptyIsLowStable ==
    (spc = "done" /\ eventsFile = JsonArrayFile(<<>>)) =>
        /\ indexHtml[1].eventCount = 0
        /\ latestBrief[1].eventCount = 0
        /\ briefHtml.kind = "fallback" =>
              /\ briefHtml.count = 0
              /\ briefHtml.riskLevel = "low"
        /\ indexHtml[1].trend = "stable"
        /\ latestBrief[1].trend = "stable"

\* Strictly increasing.
Increasing(s) == \A i \in 1..(Len(s) - 1) : s[i] < s[i + 1]

\* The passes run in the order 1, 2, 3, each after the one before has
\* resolved, and passes 2 and 3 run with the entity data pass 1 returned.
PassesInOrder ==
    /\ [](/\ Increasing(modelCalls)
          /\ spc \in {"start", "pass1"} => passOutcome = [p \in 1..3 |-> NotCalled]
          /\ spc = "pass2" => passOutcome[2] = NotCalled /\ passOutcome[3] = NotCalled
          /\ spc = "pass3" => passOutcome[2] # NotCalled /\ passOutcome[3] = NotCalled
          /\ passOutcome[3] # NotCalled => passOutcome[2] # NotCalled
          /\ spc \in {"pass2", "pass3"} => entityData # JsonNull)
    /\ [][/\ passOutcome'[1] # passOutcome[1] => spc = "pass1"
          /\ passOutcome'[2] # passOutcome[2] => spc = "pass2"
          /\ passOutcome'[3] # passOutcome[3] => spc = "pass3"
          /\ spc \in {"pass2", "pass3"} => entityData' = entityData]_vars

\* C18 as stated: the passes run in order and a run that completes has made
\* between one and three text-generation calls.
C18_OneToThreeCalls ==
    /\ PassesInOrder
    /\ [](spc = "done" => Len(modelCalls) \in 1..3)

\* C18: the passes run in order; no run sends more than three requests, and
\* a run that completes has sent none when GITHUB_TOKEN is missing, two when
\* the EventSet is empty (pass 1 returns at line 46) and three otherwise.
C18_CallsByCase ==
    /\ PassesInOrder
    /\ [](Len(modelCalls) <= 3)
    /\ [](spc = "done" =>
            Len(modelCalls) = IF GITHUB_TOKEN = Undefined THEN 0
                              ELSE IF events.value = <<>> THEN 2 ELSE 3)

\* A run on an empty EventSet has completed with the calls of passes 2 and 3.
C18_Witness == spc = "done" /\ modelCalls = <<2, 3>>

----------------------------------------------------------------------------
(* Both scripts: properties *)

\* C16: data/events.json changes only in the one step that ends a Collector
\* run, after every request has resolved, and index.html is written only in
\* the one step after the three passes, with no call after it; a run that
\* has not reached that step, or crashed, has left the file as it was.
C16_WrittenOnceAtTheEnd ==
    /\ [](writes \in {0, 1} /\ (writes = 1 <=> pc = "done"))
    /\ [][(eventsFile' # eventsFile \/ writes' # writes) =>
            /\ pc = "fetch" /\ Len(requests) = NumQueries
            /\ writes = 0 /\ writes' = 1
            /\ pc' = "done"]_vars
    /\ [][writes = 1 => requests' = requests /\ eventsFile' = eventsFile]_vars
    /\ [](indexHtml # <<>> <=> spc \in {"record", "done"})
    /\ [][indexHtml' # indexHtml =>
            /\ indexHtml = <<>>
            /\ spc = "build" /\ spc' = "record"
            /\ passOutcome[2] # NotCalled /\ passOutcome[3] # NotCalled]_vars
    /\ [][indexHtml # <<>> =>
            /\ indexHtml' = indexHtml
            /\ passOutcome' = passOutcome /\ modelCalls' = modelCalls]_vars

\* A Synthesizer run stopped after a request and before its write.
C16_Witness == spc = "crashed" /\ modelCalls # <<>> /\ indexHtml = <<>>

----------------------------------------------------------------------------
(* Synthesizer: grouping and digests *)

\* The category-to-count mapping a sequence of [cat, count, ...] gives.
CountsOf(groups) == {<<groups[k].cat, groups[k].count>> : k \in 1..Len(groups)}

ExpectedRisk(n) ==
    IF n > 15 THEN <<"critical", 8>>
    ELSE IF n > 8 THEN <<"high", 6>>
    ELSE IF n > 3 THEN <<"medium", 4>>
    ELSE <<"low", 2>>

\* C22: the fallback brief of n events has the label and the score of the
\* table (critical/8 above 15, high/6 above 8, medium/4 above 3, else
\* low/2), so has that of every shorter EventSet, and the score of no
\* shorter EventSet is higher.
C22_RiskByCount ==
    briefHtml.kind = "fallback" =>
        /\ briefHtml.count = Len(events.value)
        /\ <<briefHtml.riskLevel, briefHtml.riskScore>> = ExpectedRisk(Len(events.value))
        /\ \A m \in 0..Len(events.value) :
              LET shorter == generateFallbackBrief(SubSeq(events.value, 1, m))
              IN  /\ <<shorter.riskLevel, shorter.riskScore>> = ExpectedRisk(m)
                  /\ shorter.riskScore <= briefHtml.riskScore

\* The fallback brief of the first count above the highest threshold.
C22_Witness == briefHtml.kind = "fallback" /\ briefHtml.count = 16 /\ spc = "done"

\* The positions of the events of category c.
PositionsOf(ev, c) == {j \in 1..Len(ev) : CategoryOf(ev[j]) = c}

\* C23: the digest of pass 1 has a line for each of the first 30 events and
\* no more; the digest of pass 2 gives for each category the number of all
\* its events and a line for each of its first 5 events in EventSet order,
\* and no more.
C23_DigestBounded ==
    LET ev == events.value
    IN  /\ passOutcome[1] # NotCalled =>
              /\ Len(digest1) = Min(30, Len(ev))
              /\ \A i \in 1..Len(digest1) :
                    digest1[i][2] = FirstTruthy(ev[i], "title", "text", "Signal")
        /\ passOutcome[2] # NotCalled =>
              /\ {digest2[k].cat : k \in 1..Len(digest2)} = Categories(ev)
              /\ \A k \in 1..Len(digest2) :
                    LET pos == PositionsOf(ev, digest2[k].cat)
                    IN  /\ digest2[k].count = Cardinality(pos)
                        /\ Len(digest2[k].summaries) = Min(5, Cardinality(pos))
                        /\ \A j \in pos :
                              LET i == Cardinality({h \in pos : h <= j})
                              IN  i <= 5 =>
                                    digest2[k].summaries[i][2]
                                        = FirstTruthy(ev[j], "title", "text", "Signal")

\* The three requests of a run on an EventSet longer than both caps.
C23_Witness ==
    /\ spc = "done"
    /\ Len(modelCalls) = 3
    /\ Len(events.value) > 30
    /\ \E k \in 1..Len(digest2) : digest2[k].count > 5

RECURSIVE SumCounts(_)
SumCounts(groups) ==
    IF groups = <<>> THEN 0 ELSE Head(groups).count + SumCounts(Tail(groups))

\* C25: in a completed run every event is counted under exactly one
\* category of the page (its _category, or "general"), the counts add up to
\* the number of events, and the record holds the same number of events and
\* the same categories as the page.
C25_GroupingPartitions ==
    spc = "done" =>
        LET page == indexHtml[1]
            rec == latestBrief[1]
            ev == events.value
        IN  /\ \A i \in 1..Len(ev) :
                  Cardinality({k \in 1..Len(page.categoryStats) :
                      page.categoryStats[k].cat = CategoryOf(ev[i])}) = 1
            /\ \A k \in 1..Len(page.categoryStats) :
                  page.categoryStats[k].count
                      = Cardinality(PositionsOf(ev, page.categoryStats[k].cat))
            /\ SumCounts(page.categoryStats) = Len(ev)
            /\ page.eventCount = Len(ev)
            /\ rec.eventCount = page.eventCount
            /\ {rec.threatCategories[k] : k \in 1..Len(rec.threatCategories)}
                  = {page.categoryStats[k].cat : k \in 1..Len(page.categoryStats)}

====
